---- MODULE Spec2Model ----
(***************************************************************************)
(* PercolationSolver.perform_split (cassiopeia/solver/PercolationSolver.py)*)
(* and the recursive partitioning harness that drives it.                   *)
(*                                                                          *)
(* A solver is constructed with a threshold, a similarity function and a    *)
(* character matrix.  perform_split builds the thresholded similarity graph *)
(* of a list of samples, percolates it (removes all edges of the minimum    *)
(* weight, round after round) until it falls apart, and merges more than    *)
(* two components with neighbor joining on the components' LCAs.            *)
(***************************************************************************)
EXTENDS Integers, Sequences, FiniteSets, TLC

\* ---------------------------------------------------------------- bounds
\* Samples are the row indices 0 .. n-1 with 1 <= n <= MaxSamples.
MaxSamples == 4
\* An injected similarity function scores a pair in -1 .. MaxSimilarity.
MaxSimilarity == 2
\* Character matrices have NumCharacters columns ...
NumCharacters == 2
\* ... with states 0 (unmutated), 1 .. MaxState, and the missing marker.
MaxState == 1

\* missing_char, the constructor's argument: the marker of a missing state.
MissingChar == -1

\* The calls of get_lca_characters on their own: the number of vectors and
\* the largest state.
MaxVectors == 3
MaxLcaState == 2

\* resolve_umi_sequence: the rows of the molecule table, the cell barcodes,
\* the UMIs and the read counts.
MaxReads == 4
MaxCells == 2
MaxUmis == 2
MaxReadCount == 2

SimilarityValues == -1 .. MaxSimilarity
Thresholds == 0 .. MaxSimilarity
States == {MissingChar} \cup (0 .. MaxState)
Vectors == [1 .. NumCharacters -> States]
LcaVectors == [1 .. NumCharacters -> {MissingChar} \cup (0 .. MaxLcaState)]

VARIABLES
    \* the solver's attributes (PercolationSolver.__init__)
    threshold, similarity_function, unique_character_matrix,
    \* VanillaGreedySolver: the attribute set by __init__, and the argument
    \* split of perform_split
    missing_data_classifier, split_arg,
    \* perform_split: argument, locals, return value, position
    samples, G, edge_weights_to_pairs, sorted_edge_weights,
    connected_components, split, pc,
    \* what one call of perform_split did
    popped, removed, lcas, lca_calls, nj_calls, nj_tree, clusters,
    \* the recursive harness (solve)
    hpc, work, tree, labels, calls,
    \* the outcomes of the calls a direct caller has made so far
    runs,
    \* resolve_umi_sequence: argument, the groups still to visit, locals
    molecule_table, pending_groups, mt_filter, filt_molecule_table

cfg_vars == <<threshold, similarity_function, unique_character_matrix,
              missing_data_classifier, split_arg>>
split_vars == <<samples, G, edge_weights_to_pairs, sorted_edge_weights,
                connected_components, split, pc>>
trace_vars == <<popped, removed, lcas, lca_calls, nj_calls, nj_tree,
                clusters>>
harness_vars == <<hpc, work, tree, labels, calls, runs>>
umi_vars == <<molecule_table, pending_groups, mt_filter, filt_molecule_table>>
vars == <<cfg_vars, split_vars, trace_vars, harness_vars, umi_vars>>

\* ------------------------------------------------------- list utilities
Range(s) == {s[i] : i \in DOMAIN s}

Distinct(s) == \A i, j \in DOMAIN s : i # j => s[i] # s[j]

Min(S) == CHOOSE x \in S : \A y \in S : x <= y

Max(S) == CHOOSE x \in S : \A y \in S : x >= y

\* list(a_set) for a set of small non-negative ints: CPython iterates such a
\* set in ascending order.
RECURSIVE SetToList(_)
SetToList(S) ==
    IF S = {} THEN <<>> ELSE <<Min(S)>> \o SetToList(S \ {Min(S)})

\* sorted(keys, reverse=True)
RECURSIVE SortedReverse(_)
SortedReverse(S) ==
    IF S = {} THEN <<>> ELSE <<Max(S)>> \o SortedReverse(S \ {Max(S)})

RECURSIVE Flatten(_)
Flatten(ss) ==
    IF ss = <<>> THEN <<>> ELSE Head(ss) \o Flatten(Tail(ss))

\* itertools.combinations(s, 2): the pairs <<s[a], s[b]>>, a < b, in
\* lexicographic order of the positions.
RECURSIVE CombinationsFrom(_, _, _)
CombinationsFrom(s, a, b) ==
    IF a >= Len(s) THEN <<>>
    ELSE IF b > Len(s) THEN CombinationsFrom(s, a + 1, a + 2)
    ELSE <<<<s[a], s[b]>>>> \o CombinationsFrom(s, a, b + 1)

Combinations(s) == CombinationsFrom(s, 1, 2)

\* ------------------------------------------------ similarity functions
\* similarity_functions.hamming_similarity without weights: the number of
\* characters at which both samples carry the same mutated state (neither
\* unmutated nor missing).
hamming_similarity(s1, s2, missing_char) ==
    Cardinality({c \in DOMAIN s1 :
        s1[c] = s2[c] /\ s1[c] # missing_char /\ s1[c] # 0})

\* self.similarity_function(self.unique_character_matrix[i],
\* self.unique_character_matrix[j], self.missing_char, self.weights).  The
\* default is hamming_similarity; an injected function is given by its table
\* over the pairs of rows.
Similarity(i, j) ==
    IF similarity_function.kind = "hamming"
    THEN hamming_similarity(unique_character_matrix[i],
                            unique_character_matrix[j], MissingChar)
    ELSE similarity_function.table[{i, j}]

PairWeight(p) == Similarity(p[1], p[2])

EdgeOf(p) == {p[1], p[2]}

\* ------------------------------------------------------ similarity graph
IncludeEdgeStrict(similarity) == similarity > threshold

\* if similarity >= self.threshold:
IncludeEdge(similarity) == similarity >= threshold

\* The pairs that become edges, in the order they are visited.
KeptPairs(s) ==
    SelectSeq(Combinations(s), LAMBDA p : IncludeEdge(PairWeight(p)))

\* G after the construction loop: the nodes in insertion order, the edges.
BuildGraph(s) ==
    [nodes |-> s, edges |-> {EdgeOf(p) : p \in Range(KeptPairs(s))}]

\* edge_weights_to_pairs after the construction loop: a dict from each weight
\* seen to the list of the pairs of that weight.
BuildEdgeWeights(s) ==
    LET kept == KeptPairs(s)
        ws == {PairWeight(p) : p \in Range(kept)}
    IN  [w \in ws |-> SelectSeq(kept, LAMBDA p : PairWeight(p) = w)]

\* nx.connected_components(G): a breadth-first search from every node not yet
\* seen, the nodes taken in insertion order.
RECURSIVE Reach(_, _)
Reach(seen, E) ==
    LET more == {v \in UNION E : \E e \in E : v \in e /\ e \cap seen # {}}
    IN  IF more \subseteq seen THEN seen ELSE Reach(seen \cup more, E)

RECURSIVE ComponentsFrom(_, _, _, _)
ComponentsFrom(nodes, k, seen, E) ==
    IF k > Len(nodes) THEN <<>>
    ELSE IF nodes[k] \in seen THEN ComponentsFrom(nodes, k + 1, seen, E)
    ELSE LET c == Reach({nodes[k]}, E)
         IN  <<c>> \o ComponentsFrom(nodes, k + 1, seen \cup c, E)

\* The components of the nodes that have an edge only.
ConnectedComponentsOfEdges(g) ==
    ComponentsFrom(SelectSeq(g.nodes, LAMBDA v : v \in UNION g.edges), 1, {},
                   g.edges)

ConnectedComponents(g) == ComponentsFrom(g.nodes, 1, {}, g.edges)

\* ------------------------------------------------------------ percolation
\* The sorted weights without the highest.
SortedEdgeWeightsTruncated(buckets) == Tail(SortedReverse(DOMAIN buckets))

SortedEdgeWeightsAscending(buckets) == SetToList(DOMAIN buckets)

\* sorted(edge_weights_to_pairs, reverse=True)
SortedEdgeWeights(buckets) == SortedReverse(DOMAIN buckets)

\* pop() on a first call, pop(0) on a later one.
PopByRun(ws) ==
    IF runs = <<>>
    THEN [value |-> ws[Len(ws)], rest |-> SubSeq(ws, 1, Len(ws) - 1)]
    ELSE [value |-> ws[1], rest |-> Tail(ws)]

PopFirst(ws) == [value |-> ws[1], rest |-> Tail(ws)]

\* sorted_edge_weights.pop(): the last element, and the list without it.
Pop(ws) == [value |-> ws[Len(ws)], rest |-> SubSeq(ws, 1, Len(ws) - 1)]

RemoveFirstEdge(g, bucket) ==
    [g EXCEPT !.edges = @ \ {EdgeOf(bucket[1])}]

\* for edge in edge_weights_to_pairs[min_weight]: G.remove_edge(...)
RemoveEdges(g, bucket) ==
    [g EXCEPT !.edges = @ \ {EdgeOf(p) : p \in Range(bucket)}]

\* ---------------------------------------------------------------- trees
\* A directed tree: the nodes and the edges <<parent, child>>, both in
\* insertion order (networkx keeps it).
EmptyTree == [nodes |-> <<>>, edges |-> <<>>]

AddNode(t, n) == [t EXCEPT !.nodes = Append(@, n)]

AddEdge(t, p, c) == [t EXCEPT !.edges = Append(@, <<p, c>>)]

\* tree.successors(n)
Successors(t, n) ==
    LET es == SelectSeq(t.edges, LAMBDA e : e[1] = n)
    IN  [i \in 1 .. Len(es) |-> es[i][2]]

\* tree.in_degree(n)
InDegree(t, n) == Cardinality({i \in DOMAIN t.edges : t.edges[i][2] = n})

\* solver_utilities.get_leaves(tree, n): the leaves below n.
RECURSIVE get_leaves(_, _)
get_leaves(t, n) ==
    LET succ == Successors(t, n)
    IN  IF succ = <<>> THEN <<n>>
        ELSE Flatten([i \in 1 .. Len(succ) |-> get_leaves(t, succ[i])])

Leaves(t) == {n \in Range(t.nodes) : Successors(t, n) = <<>>}

\* solver_utilities.collapse_unifurcations_newick(tree): every node with a
\* parent and exactly one child is spliced out, its child reparented to its
\* parent.
Unifurcations(t) ==
    {n \in Range(t.nodes) : InDegree(t, n) = 1 /\ Len(Successors(t, n)) = 1}

RECURSIVE collapse_unifurcations_newick(_)
collapse_unifurcations_newick(t) ==
    IF Unifurcations(t) = {} THEN t
    ELSE LET v == Min(Unifurcations(t))
             c == Successors(t, v)[1]
             kept == SelectSeq(t.edges, LAMBDA e : e[1] # v)
         IN  collapse_unifurcations_newick(
                 [nodes |-> SelectSeq(t.nodes, LAMBDA n : n # v),
                  edges |-> [i \in 1 .. Len(kept) |->
                                IF kept[i][2] = v THEN <<kept[i][1], c>>
                                ELSE kept[i]]])

\* ------------------------------------------------------ LCA of components
\* solver_utilities.get_lca_characters(vectors, missing_char), position by
\* position: the state all non-missing entries share, 0 if they disagree,
\* missing if every entry is missing.
get_lca_characters(vectors, missing_char) ==
    [c \in DOMAIN vectors[1] |->
        LET present == {vectors[i][c] : i \in DOMAIN vectors} \ {missing_char}
        IN  IF present = {} THEN missing_char
            ELSE IF Cardinality(present) = 1 THEN CHOOSE x \in present : TRUE
            ELSE 0]

\* The calls with a marker no entry carries in place of self.missing_char.
LcasWithoutMissing(comps) ==
    [i \in 0 .. Len(comps) - 1 |->
        get_lca_characters(
            [m \in 1 .. Len(comps[i + 1]) |->
                unique_character_matrix[comps[i + 1][m]]],
            MissingChar - 1)]

LcasOfFirstMember(comps) ==
    [i \in 0 .. Len(comps) - 1 |-> unique_character_matrix[comps[i + 1][1]]]

\* lcas[i] for component i (0-based, as range(len(connected_components))).
Lcas(comps) ==
    [i \in 0 .. Len(comps) - 1 |->
        get_lca_characters(
            [m \in 1 .. Len(comps[i + 1]) |->
                unique_character_matrix[comps[i + 1][m]]],
            MissingChar)]

TaxonPairs(k) == {{a, b} : a, b \in 0 .. k - 1} \ {{a} : a \in 0 .. k - 1}

\* The similarities of the components' LCAs, as the neighbor-joining solver
\* gets them from self.similarity_function.  With hamming_similarity they are
\* computed from the LCA vectors.  An injected function is known on the rows
\* of the matrix only (the LCA of a one-sample component is that sample's
\* row); on the LCA of a larger component it may have any value.
LcaSimilarities(comps) ==
    LET k == Len(comps)
        Known(p) == \A a \in p : Len(comps[a + 1]) = 1
        free == {p \in TaxonPairs(k) : ~Known(p)}
    IN  IF similarity_function.kind = "hamming"
        THEN {[p \in TaxonPairs(k) |->
                 hamming_similarity(Lcas(comps)[Min(p)], Lcas(comps)[Max(p)],
                                    MissingChar)]}
        ELSE {[p \in TaxonPairs(k) |->
                 IF p \in free THEN f[p]
                 ELSE Similarity(comps[Min(p) + 1][1], comps[Max(p) + 1][1])] :
              f \in [free -> SimilarityValues]}

\* negative_similarity = -1 * self.similarity_function(...)
NegativeSimilarity(ls) == [p \in DOMAIN ls |-> -1 * ls[p]]

\* -------------------------------------------------------- neighbor joining
\* NeighborJoiningSolver over the taxa 0 .. k-1 with the dissimilarity map dm
\* (a function of the two-element sets of active nodes).  Distances are kept
\* doubled at every join, so that the update (d(i,x) + d(j,x) - d(i,j)) / 2
\* stays in the integers; the choice of the cherry does not depend on the
\* scale.
RECURSIVE RowSum(_, _, _)
RowSum(dm, x, others) ==
    IF others = {} THEN 0
    ELSE LET y == CHOOSE y \in others : TRUE
         IN  dm[{x, y}] + RowSum(dm, x, others \ {y})

\* The corrected distance of the pair of active nodes x, y.
QCriterion(active, dm, x, y) ==
    (Len(active) - 2) * dm[{x, y}]
        - RowSum(dm, x, Range(active) \ {x})
        - RowSum(dm, y, Range(active) \ {y})

\* The closest pair by the corrected distance, as positions a < b of the
\* active list; of several minimal pairs the first in row-major order.
FindCherry(active, dm) ==
    LET P == {p \in (1 .. Len(active)) \X (1 .. Len(active)) : p[1] < p[2]}
        q == [p \in P |-> QCriterion(active, dm, active[p[1]], active[p[2]])]
        Before(p, r) == p[1] < r[1] \/ (p[1] = r[1] /\ p[2] < r[2])
    IN  CHOOSE p \in P :
            \A r \in P : q[p] < q[r] \/ (q[p] = q[r] /\ (p = r \/ Before(p, r)))

\* Join the cherry i, j under the new node u and update the distances.
UpdateDissimilarity(active, dm, i, j, u) ==
    LET rest == Range(active) \ {i, j}
        now == rest \cup {u}
    IN  [p \in {{x, y} : x, y \in now} \ {{x} : x \in now} |->
            IF u \in p
            THEN LET x == CHOOSE x \in p : x # u
                 IN  dm[{i, x}] + dm[{j, x}] - dm[{i, j}]
            ELSE 2 * dm[p]]

\* Join until `stop` nodes remain, then hang the remaining nodes off a root.
RECURSIVE NJJoin(_, _, _, _, _)
NJJoin(active, dm, t, next, stop) ==
    IF Len(active) <= stop
    THEN LET rooted == AddNode(t, next)
         IN  [nodes |-> rooted.nodes,
              edges |-> rooted.edges
                          \o [i \in 1 .. Len(active) |-> <<next, active[i]>>]]
    ELSE LET ch == FindCherry(active, dm)
             i == active[ch[1]]
             j == active[ch[2]]
         IN  NJJoin(
                 Append(SelectSeq(active, LAMBDA x : x # i /\ x # j), next),
                 UpdateDissimilarity(active, dm, i, j, next),
                 AddEdge(AddEdge(AddNode(t, next), next, i), next, j),
                 next + 1, stop)

\* nj_solver.solve(): join the closest pair until two nodes remain.
NJSolve(k, dm) ==
    NJJoin([i \in 1 .. k |-> i - 1], dm,
           [nodes |-> [i \in 1 .. k |-> i - 1], edges |-> <<>>], k, 2)

\* ------------------------------------------- merging to two clusters
\* root = [n for n in nj_solver.tree if nj_solver.tree.in_degree(n) == 0][0]
Root(t) == SelectSeq(t.nodes, LAMBDA n : InDegree(t, n) = 0)[1]

LeafClusters(t, root) ==
    LET ls == SetToList(Leaves(t))
    IN  [i \in 1 .. Len(ls) |-> <<ls[i]>>]

\* for i in nj_solver.tree.successors(root):
\*     clusters.append(solver_utilities.get_leaves(nj_solver.tree, i))
RootClusters(t, root) ==
    LET succ == Successors(t, root)
    IN  [i \in 1 .. Len(succ) |-> get_leaves(t, succ[i])]

ExpandFirstOnly(cl, component_to_nodes) ==
    [c \in 1 .. Len(cl) |-> component_to_nodes[cl[c][1]]]

ExpandAccumulating(cl, component_to_nodes) ==
    [c \in 1 .. Len(cl) |->
        Flatten([d \in 1 .. c |->
            Flatten([m \in 1 .. Len(cl[d]) |-> component_to_nodes[cl[d][m]]])])]

\* for cluster in clusters: node_group = []
\*     for component in cluster:
\*         node_group.extend(component_to_nodes[component])
ExpandClusters(cl, component_to_nodes) ==
    [c \in 1 .. Len(cl) |->
        Flatten([m \in 1 .. Len(cl[c]) |-> component_to_nodes[cl[c][m]]])]

\* Lines 147-190 for the components comps (lists) and the similarities ls of
\* their LCAs: the solved and collapsed tree, the clusters, the split.
Merge(comps, ls) ==
    LET solved == NJSolve(Len(comps), NegativeSimilarity(ls))
        root == Root(solved)
        collapsed == collapse_unifurcations_newick(solved)
        cl == RootClusters(collapsed, root)
        component_to_nodes == [i \in 0 .. Len(comps) - 1 |-> comps[i + 1]]
    IN  [tree |-> collapsed, clusters |-> cl,
         split |-> ExpandClusters(cl, component_to_nodes)]

\* ------------------------------------------------------------ perform_split
\* A PercolationSolver has no missing_data_classifier, and its perform_split
\* no argument split.
NotVanilla ==
    /\ missing_data_classifier = <<>>
    /\ split_arg = <<>>

\* resolve_umi_sequence is not running.
NoMoleculeTable ==
    /\ molecule_table = <<>>
    /\ pending_groups = <<>>
    /\ mt_filter = <<>>
    /\ filt_molecule_table = <<>>

NoGraph == [nodes |-> <<>>, edges |-> {}]

\* The locals of perform_split outside a call.
SplitIdle ==
    /\ samples = <<>>
    /\ G = NoGraph
    /\ edge_weights_to_pairs = <<>>
    /\ sorted_edge_weights = <<>>
    /\ connected_components = <<>>
    /\ split = <<>>
    /\ pc = "idle"
    /\ popped = <<>>
    /\ removed = {}
    /\ lcas = <<>>
    /\ lca_calls = 0
    /\ nj_calls = 0
    /\ nj_tree = EmptyTree
    /\ clusters = <<>>

ReturnNoEdgesSwapped(s) == <<<<>>, s>>

\* return samples, []
ReturnNoEdges(s) == <<s, <<>>>>

\* Lines 110-131: build the graph; without an edge return (samples, []).
Build ==
    /\ pc = "build"
    /\ LET g == BuildGraph(samples)
           buckets == BuildEdgeWeights(samples)
       IN  /\ G' = g
           /\ edge_weights_to_pairs' = buckets
           /\ IF g.edges = {}
              THEN /\ split' = ReturnNoEdges(samples)
                   /\ pc' = "return"
                   /\ UNCHANGED <<connected_components, sorted_edge_weights>>
              ELSE /\ connected_components' = ConnectedComponents(g)
                   /\ sorted_edge_weights' = SortedEdgeWeights(buckets)
                   /\ pc' = "percolate"
                   /\ split' = split
    /\ UNCHANGED <<umi_vars, cfg_vars, samples, trace_vars, harness_vars>>

\* Lines 135-139: one round of the loop.  pop() of an empty list raises
\* IndexError.
Percolate ==
    /\ pc = "percolate"
    /\ Len(connected_components) <= 1
    /\ IF sorted_edge_weights = <<>>
       THEN /\ pc' = "IndexError"
            /\ UNCHANGED <<G, sorted_edge_weights, connected_components,
                           popped, removed>>
       ELSE LET p == Pop(sorted_edge_weights)
                g == RemoveEdges(G, edge_weights_to_pairs[p.value])
            IN  /\ sorted_edge_weights' = p.rest
                /\ popped' = Append(popped, p.value)
                /\ G' = g
                /\ removed' = removed \cup (G.edges \ g.edges)
                /\ connected_components' = ConnectedComponents(g)
                /\ pc' = pc
    /\ UNCHANGED <<umi_vars, cfg_vars, samples, edge_weights_to_pairs, split,
                   lcas, lca_calls, nj_calls, nj_tree, clusters,
                   harness_vars>>

NeedsMergeFromTwo(comps) == Len(comps) >= 2

\* if len(connected_components) > 2:
NeedsMerge(comps) == Len(comps) > 2

\* Of two components, all the samples in the first list and the second list
\* empty.
ComponentListsOneSided(comps) ==
    IF Len(comps) = 2
    THEN <<SetToList(UNION Range(comps)), <<>>>>
    ELSE [i \in 1 .. Len(comps) |-> SetToList(comps[i])]

ComponentListsFlat(comps) ==
    LET all == SetToList(UNION Range(comps))
    IN  [i \in 1 .. Len(all) |-> <<all[i]>>]

\* Lines 140-141: each component becomes a list (connected_components keeps
\* the sets here; the lists are what the code goes on with).
ComponentLists(comps) == [i \in 1 .. Len(comps) |-> SetToList(comps[i])]

\* Lines 140-147 and 192: exactly two components are returned as they are,
\* each as a list.
ReturnComponents ==
    /\ pc = "percolate"
    /\ Len(connected_components) > 1
    /\ ~NeedsMerge(connected_components)
    /\ split' = ComponentLists(connected_components)
    /\ pc' = "return"
    /\ UNCHANGED <<umi_vars, cfg_vars, samples, G, edge_weights_to_pairs,
                   sorted_edge_weights, connected_components, trace_vars,
                   harness_vars>>

\* Lines 140-190: more than two components are merged by neighbor joining.
MergeComponents ==
    /\ pc = "percolate"
    /\ Len(connected_components) > 1
    /\ NeedsMerge(connected_components)
    /\ \E ls \in LcaSimilarities(ComponentLists(connected_components)) :
           \E m \in {Merge(ComponentLists(connected_components), ls)} :
               /\ nj_tree' = m.tree
               /\ clusters' = m.clusters
               /\ split' = m.split
    /\ lcas' = Lcas(ComponentLists(connected_components))
    /\ lca_calls' = lca_calls + Len(connected_components)
    /\ nj_calls' = nj_calls + 1
    /\ pc' = "return"
    /\ UNCHANGED <<umi_vars, cfg_vars, samples, G, edge_weights_to_pairs,
                   sorted_edge_weights, connected_components, popped,
                   removed, harness_vars>>

\* ------------------------------------------------- the recursive harness
\* solve: a work list of sample lists, each with the node its subtree hangs
\* from (0 for the root of the tree).  Nodes are numbered as they are made.
NewNode == Len(tree.nodes) + 1

Attach(t, parent, n) ==
    IF parent = 0 THEN AddNode(t, n) ELSE AddEdge(AddNode(t, n), parent, n)

ResetSplit ==
    /\ samples' = <<>>
    /\ G' = NoGraph
    /\ edge_weights_to_pairs' = <<>>
    /\ sorted_edge_weights' = <<>>
    /\ connected_components' = <<>>
    /\ split' = <<>>
    /\ pc' = "idle"
    /\ popped' = <<>>
    /\ removed' = {}
    /\ lcas' = <<>>
    /\ lca_calls' = 0
    /\ nj_calls' = 0
    /\ nj_tree' = EmptyTree
    /\ clusters' = <<>>

\* A set of one sample becomes a leaf; an empty set is an error.
EmitLeaf ==
    /\ hpc = "next"
    /\ UNCHANGED runs
    /\ work # <<>>
    /\ Len(Head(work).samples) <= 1
    /\ IF Head(work).samples = <<>>
       THEN /\ hpc' = "EmptyPartitionError"
            /\ UNCHANGED <<work, tree, labels>>
       ELSE /\ tree' = Attach(tree, Head(work).parent, NewNode)
            /\ labels' = labels @@ (NewNode :> Range(Head(work).samples))
            /\ work' = Tail(work)
            /\ hpc' = hpc
    /\ UNCHANGED <<umi_vars, cfg_vars, split_vars, trace_vars, calls>>

\* A set of two or more samples is handed to perform_split.
CallPerformSplit ==
    /\ hpc = "next"
    /\ UNCHANGED runs
    /\ work # <<>>
    /\ Len(Head(work).samples) >= 2
    /\ samples' = Head(work).samples
    /\ pc' = "build"
    /\ hpc' = "split"
    /\ calls' = Append(calls, Head(work).samples)
    /\ UNCHANGED <<umi_vars, cfg_vars, G, edge_weights_to_pairs,
                   sorted_edge_weights,
                   connected_components, split, trace_vars, work, tree,
                   labels>>

NonEmptySides(sp) == SelectSeq(sp, LAMBDA side : side # <<>>)

\* The work items of the sides of a partition, under the new internal node.
SideItems(sp, node) == [i \in 1 .. Len(sp) |-> [samples |-> sp[i], parent |-> node]]

\* perform_split returned a partition with no empty side: an internal node,
\* and each side is solved on its own.
AttachChildren ==
    /\ hpc = "split"
    /\ UNCHANGED runs
    /\ pc = "return"
    /\ Len(NonEmptySides(split)) = Len(split)
    /\ tree' = Attach(tree, Head(work).parent, NewNode)
    /\ work' = SideItems(split, NewNode) \o Tail(work)
    /\ hpc' = "next"
    /\ ResetSplit
    /\ UNCHANGED <<umi_vars, cfg_vars, labels, calls>>

\* perform_split returned an empty side (the set cannot be separated): the
\* whole set becomes one leaf labelled with all its samples.
LeafGroup ==
    /\ hpc = "split"
    /\ UNCHANGED runs
    /\ pc = "return"
    /\ Len(NonEmptySides(split)) < Len(split)
    /\ tree' = Attach(tree, Head(work).parent, NewNode)
    /\ labels' = labels @@ (NewNode :> Range(Flatten(split)))
    /\ work' = Tail(work)
    /\ hpc' = "next"
    /\ ResetSplit
    /\ UNCHANGED <<umi_vars, cfg_vars, calls>>

\* The work list is empty: unifurcations are spliced out and the tree is
\* returned.
Finish ==
    /\ hpc = "next"
    /\ UNCHANGED runs
    /\ work = <<>>
    /\ tree' = collapse_unifurcations_newick(tree)
    /\ hpc' = "solved"
    /\ UNCHANGED <<umi_vars, cfg_vars, split_vars, trace_vars, work, labels,
                   calls>>

\* ------------------------------------------------------- specifications
AllSamples(n) == [i \in 1 .. n |-> i - 1]

Reverse(s) == [i \in 1 .. Len(s) |-> s[Len(s) + 1 - i]]

PairsOf(S) == {{i, j} : i, j \in S} \ {{i} : i \in S}

\* An injected similarity function.  Only the function's table over the rows
\* it is applied to matters; the rows themselves are left abstract.
Injected(S) ==
    /\ similarity_function \in
           [kind : {"injected"}, table : [PairsOf(S) -> SimilarityValues]]
    /\ unique_character_matrix = [i \in S |-> <<>>]

\* solve() on a matrix of n rows: the work list holds all samples.
Init ==
    \E n \in 1 .. MaxSamples :
        /\ threshold \in Thresholds
        /\ NotVanilla
        /\ NoMoleculeTable
        /\ Injected(0 .. n - 1)
        /\ SplitIdle
        /\ hpc = "next"
        /\ work = <<[samples |-> AllSamples(n), parent |-> 0]>>
        /\ tree = EmptyTree
        /\ labels = <<>>
        /\ calls = <<>>
        /\ runs = <<>>

\* A call perform_split(s) from outside the harness.
DirectCall(s) ==
    /\ samples = s
    /\ G = NoGraph
    /\ edge_weights_to_pairs = <<>>
    /\ sorted_edge_weights = <<>>
    /\ connected_components = <<>>
    /\ split = <<>>
    /\ pc = "build"
    /\ popped = <<>>
    /\ removed = {}
    /\ lcas = <<>>
    /\ lca_calls = 0
    /\ nj_calls = 0
    /\ nj_tree = EmptyTree
    /\ clusters = <<>>
    /\ hpc = "direct"
    /\ work = <<>>
    /\ tree = EmptyTree
    /\ labels = <<>>
    /\ calls = <<s>>
    /\ runs = <<>>

\* perform_split on a non-empty list of distinct samples, in ascending or in
\* descending order, with an injected similarity function.
InitSplit ==
    \E S \in (SUBSET (0 .. MaxSamples - 1)) \ {{}} :
        /\ threshold \in Thresholds
        /\ NotVanilla
        /\ NoMoleculeTable
        /\ Injected(S)
        /\ \E s \in {SetToList(S), Reverse(SetToList(S))} : DirectCall(s)

\* perform_split on all rows of a character matrix, with the default
\* similarity function, hamming_similarity.
InitHamming ==
    \E n \in 1 .. MaxSamples :
        /\ threshold \in Thresholds
        /\ NotVanilla
        /\ NoMoleculeTable
        /\ similarity_function = [kind |-> "hamming", table |-> <<>>]
        /\ unique_character_matrix \in [0 .. n - 1 -> Vectors]
        /\ DirectCall(AllSamples(n))

\* What a call of perform_split did: the weight and the edges of every round,
\* the graph and the components it ended with, and what it returned.
Outcome ==
    [rounds |-> [k \in DOMAIN popped |->
                    [weight |-> popped[k],
                     edges |-> edge_weights_to_pairs[popped[k]]]],
     graph |-> G,
     components |-> ComponentLists(connected_components),
     tree |-> nj_tree,
     split |-> split]

\* The caller records the outcome of the call that returned and calls
\* perform_split again with the same argument on the same solver.
CallAgain ==
    /\ hpc = "direct"
    /\ pc = "return"
    /\ runs = <<>>
    /\ runs' = Append(runs, Outcome)
    /\ calls' = Append(calls, samples)
    /\ G' = NoGraph
    /\ edge_weights_to_pairs' = <<>>
    /\ sorted_edge_weights' = <<>>
    /\ connected_components' = <<>>
    /\ split' = <<>>
    /\ pc' = "build"
    /\ popped' = <<>>
    /\ removed' = {}
    /\ lcas' = <<>>
    /\ lca_calls' = 0
    /\ nj_calls' = 0
    /\ nj_tree' = EmptyTree
    /\ clusters' = <<>>
    /\ UNCHANGED <<umi_vars, cfg_vars, samples, hpc, work, tree, labels>>

NextSplit ==
    \/ Build
    \/ Percolate
    \/ ReturnComponents
    \/ MergeComponents

Next ==
    \/ NextSplit
    \/ EmitLeaf
    \/ CallPerformSplit
    \/ AttachChildren
    \/ LeafGroup
    \/ Finish

\* solve() of the harness, perform_split with an injected function.
Spec == Init /\ [][Next]_vars

\* One call of perform_split with an injected function.
SplitSpec == InitSplit /\ [][NextSplit]_vars

\* One call of perform_split with hamming_similarity.
HammingSpec == InitHamming /\ [][NextSplit]_vars

\* Lines 151-161 on their own, for one component holding all the samples:
\* the rows of the members go to get_lca_characters with self.missing_char.
ComputeLca ==
    /\ pc = "lca"
    /\ lcas' = Lcas(<<samples>>)
    /\ lca_calls' = lca_calls + 1
    /\ pc' = "return"
    /\ UNCHANGED <<umi_vars, cfg_vars, samples, G, edge_weights_to_pairs,
                   sorted_edge_weights, connected_components, split, popped,
                   removed, nj_calls, nj_tree, clusters, harness_vars>>

\* A component of up to MaxVectors samples with any rows, before its
\* ancestral vector is computed.
InitLca ==
    \E n \in 1 .. MaxVectors :
        /\ threshold = 0
        /\ NotVanilla
        /\ NoMoleculeTable
        /\ similarity_function = [kind |-> "hamming", table |-> <<>>]
        /\ unique_character_matrix \in [0 .. n - 1 -> LcaVectors]
        /\ samples = AllSamples(n)
        /\ G = NoGraph
        /\ edge_weights_to_pairs = <<>>
        /\ sorted_edge_weights = <<>>
        /\ connected_components = <<>>
        /\ split = <<>>
        /\ pc = "lca"
        /\ popped = <<>>
        /\ removed = {}
        /\ lcas = <<>>
        /\ lca_calls = 0
        /\ nj_calls = 0
        /\ nj_tree = EmptyTree
        /\ clusters = <<>>
        /\ hpc = "direct"
        /\ work = <<>>
        /\ tree = EmptyTree
        /\ labels = <<>>
        /\ calls = <<>>
        /\ runs = <<>>

NextLca == ComputeLca

\* get_lca_characters as perform_split calls it, on any component.
LcaSpec == InitLca /\ [][NextLca]_vars

\* What a Python function whose body is pass returns.
None == "None"

\* VanillaGreedySolver.perform_split(samples, split): the body is pass.
VanillaPerformSplit ==
    /\ pc = "vanilla"
    /\ split' = None
    /\ pc' = "return"
    /\ UNCHANGED <<umi_vars, cfg_vars, samples, G, edge_weights_to_pairs,
                   sorted_edge_weights, connected_components, trace_vars,
                   harness_vars>>

\* A VanillaGreedySolver with a missing-data classifier, and a call of
\* perform_split with all the samples and a (character, state) pair.
InitVanilla ==
    \E n \in 1 .. MaxVectors :
        /\ threshold = 0
        /\ similarity_function = [kind |-> "hamming", table |-> <<>>]
        /\ unique_character_matrix \in [0 .. n - 1 -> Vectors]
        /\ missing_data_classifier \in [0 .. n - 1 -> {"left", "right"}]
        /\ NoMoleculeTable
        /\ split_arg \in (1 .. NumCharacters) \X (1 .. MaxState)
        /\ samples = AllSamples(n)
        /\ G = NoGraph
        /\ edge_weights_to_pairs = <<>>
        /\ sorted_edge_weights = <<>>
        /\ connected_components = <<>>
        /\ split = <<>>
        /\ pc = "vanilla"
        /\ popped = <<>>
        /\ removed = {}
        /\ lcas = <<>>
        /\ lca_calls = 0
        /\ nj_calls = 0
        /\ nj_tree = EmptyTree
        /\ clusters = <<>>
        /\ hpc = "direct"
        /\ work = <<>>
        /\ tree = EmptyTree
        /\ labels = <<>>
        /\ calls = <<>>
        /\ runs = <<>>

NextVanilla == VanillaPerformSplit

\* One call of VanillaGreedySolver.perform_split.
VanillaSpec == InitVanilla /\ [][NextVanilla]_vars

\* The thresholds a caller may pass, those below and above every value of
\* hamming_similarity included.
RequestedThresholds == -1 .. NumCharacters + 1

\* PercolationSolver.__init__, lines 79-85: the threshold is stored as it is
\* given; a similarity function that is given is kept, and
\* hamming_similarity is the default.
Construct ==
    /\ pc = "init"
    /\ threshold' = threshold
    /\ similarity_function' =
           IF similarity_function.kind # "none" THEN similarity_function
           ELSE [kind |-> "hamming", table |-> <<>>]
    /\ pc' = "build"
    /\ UNCHANGED <<umi_vars, unique_character_matrix,
                   missing_data_classifier,
                   split_arg, samples, G, edge_weights_to_pairs,
                   sorted_edge_weights, connected_components, split,
                   trace_vars, harness_vars>>

\* The arguments of PercolationSolver(...) before __init__ runs, and the
\* samples perform_split is then called with.
InitConstruct ==
    \E n \in 1 .. MaxVectors :
        /\ threshold \in RequestedThresholds
        /\ NotVanilla
        /\ NoMoleculeTable
        /\ similarity_function \in
               {[kind |-> "none", table |-> <<>>],
                [kind |-> "hamming", table |-> <<>>]}
        /\ unique_character_matrix \in [0 .. n - 1 -> Vectors]
        /\ samples = AllSamples(n)
        /\ G = NoGraph
        /\ edge_weights_to_pairs = <<>>
        /\ sorted_edge_weights = <<>>
        /\ connected_components = <<>>
        /\ split = <<>>
        /\ pc = "init"
        /\ popped = <<>>
        /\ removed = {}
        /\ lcas = <<>>
        /\ lca_calls = 0
        /\ nj_calls = 0
        /\ nj_tree = EmptyTree
        /\ clusters = <<>>
        /\ hpc = "direct"
        /\ work = <<>>
        /\ tree = EmptyTree
        /\ labels = <<>>
        /\ calls = <<>>
        /\ runs = <<>>

NextConstruct ==
    \/ Construct
    \/ NextSplit

\* The construction of a PercolationSolver, then one call of perform_split.
ConstructSpec == InitConstruct /\ [][NextConstruct]_vars

\* ------------------------------------------------- resolve_umi_sequence
\* The key of a row in groupby(["cellBC", "UMI"]).
KeyOf(r) == <<r.cellBC, r.UMI>>

KeyLess(a, b) == a[1] < b[1] \/ (a[1] = b[1] /\ a[2] < b[2])

\* groupby visits the groups in ascending order of their keys.
RECURSIVE SortedKeys(_)
SortedKeys(S) ==
    IF S = {} THEN <<>>
    ELSE LET k == CHOOSE k \in S : \A j \in S \ {k} : KeyLess(k, j)
         IN  <<k>> \o SortedKeys(S \ {k})

\* The rows of a group, in the order of the table.
Group(t, key) == SelectSeq(t, LAMBDA r : KeyOf(r) = key)

LowestReadCount(group) ==
    {r \in Range(group) : \A q \in Range(group) : r.readCount <= q.readCount}

\* The rows group.sort_values("readCount", ascending=False) may place first:
\* the sort is not stable, so any row of the highest readCount.
HighestReadCount(group) ==
    {r \in Range(group) : \A q \in Range(group) : r.readCount >= q.readCount}

\* Lines 105 and 113-115: mt_filter[good_readName] = False, then
\* mt_filter[bad_readName] = True for every other row of the sorted group.
MarkGroup(filter, group, good) ==
    LET bad == {r.readName : r \in Range(group) \ {good}}
        names == {r.readName : r \in Range(group)}
    IN  [name \in DOMAIN filter \cup names |->
            IF name \in bad THEN TRUE
            ELSE IF name = good.readName THEN FALSE
            ELSE filter[name]]

\* Line 88: molecule_table.groupby(["cellBC", "UMI"]).
GroupBy ==
    /\ pc = "resolve"
    /\ pending_groups' = SortedKeys({KeyOf(r) : r \in Range(molecule_table)})
    /\ pc' = "groups"
    /\ UNCHANGED <<cfg_vars, samples, G, edge_weights_to_pairs,
                   sorted_edge_weights, connected_components, split,
                   trace_vars, harness_vars, molecule_table, mt_filter,
                   filt_molecule_table>>

\* Lines 88-115: one group.  A group of one row keeps its row; a larger
\* group keeps the first row of the sort and marks the others.
ResolveGroup ==
    /\ pc = "groups"
    /\ pending_groups # <<>>
    /\ LET group == Group(molecule_table, Head(pending_groups))
       IN  IF Len(group) = 1
           THEN mt_filter' =
                    [name \in DOMAIN mt_filter \cup {group[1].readName} |->
                        IF name = group[1].readName THEN FALSE
                        ELSE mt_filter[name]]
           ELSE \E good \in HighestReadCount(group) :
                    mt_filter' = MarkGroup(mt_filter, group, good)
    /\ pending_groups' = Tail(pending_groups)
    /\ UNCHANGED <<cfg_vars, split_vars, trace_vars, harness_vars,
                   molecule_table, filt_molecule_table>>

\* Lines 118-127: the filter column is mapped from mt_filter by readName and
\* the rows whose filter is False are kept.
ApplyFilter ==
    /\ pc = "groups"
    /\ pending_groups = <<>>
    /\ filt_molecule_table' =
           SelectSeq(molecule_table, LAMBDA r : mt_filter[r.readName] = FALSE)
    /\ pc' = "resolved"
    /\ UNCHANGED <<cfg_vars, samples, G, edge_weights_to_pairs,
                   sorted_edge_weights, connected_components, split,
                   trace_vars, harness_vars, molecule_table, pending_groups,
                   mt_filter>>

\* A molecule table of up to MaxReads rows; the readName of a row names that
\* row only.
InitUmi ==
    \E n \in 1 .. MaxReads :
        /\ \E t \in [1 .. n -> [cellBC : 1 .. MaxCells, UMI : 1 .. MaxUmis,
                                 readCount : 1 .. MaxReadCount]] :
               molecule_table =
                   [i \in 1 .. n |->
                       [readName |-> i, cellBC |-> t[i].cellBC,
                        UMI |-> t[i].UMI, readCount |-> t[i].readCount]]
        /\ pending_groups = <<>>
        /\ mt_filter = <<>>
        /\ filt_molecule_table = <<>>
        /\ threshold = 0
        /\ NotVanilla
        /\ similarity_function = [kind |-> "hamming", table |-> <<>>]
        /\ unique_character_matrix = <<>>
        /\ samples = <<>>
        /\ G = NoGraph
        /\ edge_weights_to_pairs = <<>>
        /\ sorted_edge_weights = <<>>
        /\ connected_components = <<>>
        /\ split = <<>>
        /\ pc = "resolve"
        /\ popped = <<>>
        /\ removed = {}
        /\ lcas = <<>>
        /\ lca_calls = 0
        /\ nj_calls = 0
        /\ nj_tree = EmptyTree
        /\ clusters = <<>>
        /\ hpc = "direct"
        /\ work = <<>>
        /\ tree = EmptyTree
        /\ labels = <<>>
        /\ calls = <<>>
        /\ runs = <<>>

NextUmi ==
    \/ GroupBy
    \/ ResolveGroup
    \/ ApplyFilter

\* resolve_umi_sequence up to the filtered table, before filter_cells.
UmiSpec == InitUmi /\ [][NextUmi]_vars

NextTwice ==
    \/ NextSplit
    \/ CallAgain

\* Two calls of perform_split with the same argument on the same solver.
TwiceSpec == InitHamming /\ [][NextTwice]_vars

\* ------------------------------------------------------------ properties
\* The components of a graph, from reachability alone.
ComponentSets(g) == {Reach({v}, g.edges) : v \in Range(g.nodes)}

\* The pairs of positions of the argument list.
SamplePairs == {p \in (DOMAIN samples) \X (DOMAIN samples) : p[1] < p[2]}

\* The similarity of the samples at two positions of the argument list.
Score(p) == Similarity(samples[p[1]], samples[p[2]])

HadEdges == DOMAIN edge_weights_to_pairs # {}

Returned == pc = "return"

MergePath == Returned /\ nj_calls > 0

\* C1: the lists perform_split returns are pairwise disjoint, hold no sample
\* twice, and together hold exactly the samples of the argument.
C1_PartitionCover ==
    Returned =>
        /\ Distinct(Flatten(split))
        /\ Range(Flatten(split)) = Range(samples)

\* C1 happens: a merge of three components of four samples has returned.
C1_Witness ==
    /\ MergePath
    /\ Len(samples) = 4
    /\ Len(connected_components) = 3

\* C2: what the neighbor-joining merge path returns has exactly two clusters:
\* the root of the collapsed tree has exactly two children, for every number
\* of components.
C2_TwoClusters ==
    MergePath =>
        /\ Len(connected_components) >= 3
        /\ Len(Successors(nj_tree, Root(nj_tree))) = 2
        /\ Len(clusters) = 2
        /\ Len(split) = 2

\* C2 happens for exactly three components.
C2_Witness ==
    /\ MergePath
    /\ Len(connected_components) = 3
    /\ Len(split) = 2

Solved == hpc = "solved"

\* C3: when solve has returned, the leaves of the tree are exactly the
\* labelled nodes, every leaf is labelled with samples of the matrix, and
\* every sample of the matrix labels exactly one leaf.
C3_LeavesCoverSamples ==
    Solved =>
        /\ DOMAIN labels = Leaves(tree)
        /\ \A l \in DOMAIN labels :
               labels[l] # {} /\ labels[l] \subseteq DOMAIN unique_character_matrix
        /\ \A s \in DOMAIN unique_character_matrix :
               Cardinality({l \in DOMAIN labels : s \in labels[l]}) = 1

\* C3 happens: four samples were split, one split at least into a side of
\* several samples, down to four leaves.
C3_Witness ==
    /\ Solved
    /\ Cardinality(DOMAIN labels) = 4
    /\ Len(calls) = 3

\* No list of samples is handed to perform_split twice.
NoRepeatedCall ==
    \A i, j \in DOMAIN calls : i # j => Range(calls[i]) # Range(calls[j])

\* solve has not failed: no pop() of an empty list in perform_split, no
\* empty set on the work list.  In every other state that is not Solved a
\* step of Next can be taken.
NoError == pc # "IndexError" /\ hpc # "EmptyPartitionError"

\* A bound on the steps spent on one list of samples before it is replaced
\* by its sides: the call, the construction, a round for each weight, the
\* return and the attachment.
StepsPerSplit == Cardinality(SimilarityValues) + 4

RECURSIVE WorkCost(_)
WorkCost(w) ==
    IF w = <<>> THEN 0
    ELSE StepsPerSplit * (2 * Len(Head(w).samples) - 1) + WorkCost(Tail(w))

\* The steps already spent on the list perform_split is working on.
Spent ==
    CASE hpc # "split" -> 0
      [] pc = "build" -> 1
      [] pc = "percolate" -> 2 + Len(popped)
      [] OTHER -> 3 + Len(popped)

\* A bound on the steps solve still takes.
Variant == (IF Solved THEN 0 ELSE 1) + WorkCost(work) - Spent

\* C4: solve returns for every input, also when perform_split returns an
\* empty side: it never fails, every step lowers a non-negative bound on the
\* steps left, and no set is handed to perform_split twice.
C4_SolveTerminates ==
    /\ [](NoRepeatedCall /\ NoError /\ Variant >= 0)
    /\ [][Variant' < Variant]_vars

\* C4 happens: perform_split returned an empty side for a set of several
\* samples, the set became one leaf, and solve returned.
C4_Witness ==
    /\ Solved
    /\ \E l \in DOMAIN labels : Cardinality(labels[l]) >= 2
    /\ calls # <<>>

\* No pair of the argument scores at or above the threshold.
NoPairReachesThreshold == \A p \in SamplePairs : Score(p) < threshold

\* C5: when no pair of the samples scores at or above the threshold, the
\* call goes from the construction of the graph straight to the return of
\* (samples, []): no error, no percolation round, no LCA, no neighbor
\* joining.
C5_NoEdgesReturnsSamples ==
    (NoPairReachesThreshold /\ pc # "build") =>
        /\ Returned
        /\ split = <<samples, <<>>>>
        /\ popped = <<>>
        /\ removed = {}
        /\ sorted_edge_weights = <<>>
        /\ lca_calls = 0
        /\ nj_calls = 0

\* C5 happens: three samples, no pair at the threshold, the call returned.
C5_Witness ==
    /\ Returned
    /\ Len(samples) = 3
    /\ NoPairReachesThreshold

\* The weight of an edge of the graph.
Weight(e) == Similarity(Min(e), Max(e))

\* C6: a step out of the loop head with one component is a round: the weight
\* popped is the minimum weight of the edges still in the graph, and exactly
\* the edges of that weight leave the graph.  A step out of the loop head
\* with two or more components leaves the loop and removes nothing.
C6_PercolationRound ==
    [][pc = "percolate" =>
        IF Len(connected_components) = 1
        THEN /\ pc' = "percolate"
             /\ Len(popped') = Len(popped) + 1
             /\ popped'[Len(popped')] = Min({Weight(e) : e \in G.edges})
             /\ G'.edges = {e \in G.edges : Weight(e) # popped'[Len(popped')]}
             /\ G'.edges # G.edges
        ELSE /\ Len(connected_components) >= 2
             /\ pc' = "return"
             /\ G' = G
             /\ popped' = popped]_vars

\* C6 happens: the second round has removed edges, and several tied edges
\* were removed in one round.
C6_Witness ==
    /\ pc = "percolate"
    /\ Len(popped) = 2
    /\ Cardinality(removed) >= 4
    /\ Len(edge_weights_to_pairs[popped[2]]) >= 2

\* C7: when percolation ends with exactly two components, the two lists
\* returned are those components, and neither get_lca_characters nor the
\* neighbor-joining solver was called.
C7_TwoComponentsReturned ==
    (Returned /\ HadEdges /\ Cardinality(ComponentSets(G)) = 2) =>
        /\ Len(split) = 2
        /\ {Range(split[1]), Range(split[2])} = ComponentSets(G)
        /\ Distinct(split[1]) /\ Distinct(split[2])
        /\ lca_calls = 0
        /\ nj_calls = 0

\* C7 happens: a round of percolation left two components, which were
\* returned.
C7_Witness ==
    /\ Returned
    /\ HadEdges
    /\ Len(popped) >= 1
    /\ Cardinality(ComponentSets(G)) = 2
    /\ Len(split) = 2

\* C8: on the merge path every cluster names components of the percolated
\* graph and every returned list is the union of the components of its
\* cluster, so every component of the percolated graph lies inside one
\* returned list.
C8_ComponentsKeptWhole ==
    MergePath =>
        /\ Len(clusters) = Len(split)
        /\ \A c \in 1 .. Len(clusters) :
               Range(clusters[c]) \subseteq 0 .. Len(connected_components) - 1
        /\ \A c \in 1 .. Len(split) :
               Range(split[c]) =
                   UNION {connected_components[k + 1] : k \in Range(clusters[c])}
        /\ \A comp \in ComponentSets(G) :
               \E c \in 1 .. Len(split) : comp \subseteq Range(split[c])

\* C8 happens: a component of two samples went through the merge.
C8_Witness ==
    /\ MergePath
    /\ \E comp \in ComponentSets(G) : Cardinality(comp) >= 2

\* The example: samples 0 .. 3 with the state vectors [1,0], [1,0], [0,1],
\* [0,1], hamming_similarity, threshold 0.
Example ==
    /\ similarity_function.kind = "hamming"
    /\ threshold = 0
    /\ unique_character_matrix =
           (0 :> <<1, 0>> @@ 1 :> <<1, 0>> @@ 2 :> <<0, 1>> @@ 3 :> <<0, 1>>)
    /\ samples = <<0, 1, 2, 3>>

CrossEdges == {{0, 2}, {0, 3}, {1, 2}, {1, 3}}

\* C9 as stated: in the example the graph that is built has no edge between
\* the pairs {0,1} and {2,3}, no round of percolation is made, and
\* ({0,1}, {2,3}) is returned.
C9_ExampleAsStated ==
    (Example /\ pc # "build") =>
        /\ G.edges \cap CrossEdges = {}
        /\ popped = <<>>
        /\ Returned => split = <<<<0, 1>>, <<2, 3>>>>

\* C9, amended: in the example the pairs across {0,1} and {2,3} score 0,
\* which is at the threshold, so the graph that is built is complete; one
\* round of percolation removes the four edges of weight 0, and
\* ({0,1}, {2,3}) is returned without a merge.
C9_ExampleOneRound ==
    (Example /\ pc # "build") =>
        /\ G.edges \cup removed = PairsOf(0 .. 3)
        /\ DOMAIN edge_weights_to_pairs = {0, 1}
        /\ Returned =>
               /\ popped = <<0>>
               /\ removed = CrossEdges
               /\ G.edges = {{0, 1}, {2, 3}}
               /\ split = <<<<0, 1>>, <<2, 3>>>>
               /\ nj_calls = 0

\* C9 happens: the call on the example has returned.
C9_Witness == Example /\ Returned

\* The samples of the argument form two dense clusters A and its complement
\* under the threshold 0: every pair inside a cluster is an edge and scores
\* strictly higher than every pair across.
TwoDenseClusters(A) ==
    LET B == Range(samples) \ A
        within == {p \in SamplePairs : (samples[p[1]] \in A) = (samples[p[2]] \in A)}
        across == SamplePairs \ within
    IN  /\ A # {} /\ B # {}
        /\ threshold = 0
        /\ \A w \in within : Score(w) >= threshold
        /\ \A w \in within : \A x \in across : Score(w) > Score(x)

\* The weights of the edges across the clusters A and its complement.
CrossWeights(A) ==
    {Score(p) : p \in {q \in SamplePairs :
        /\ (samples[q[1]] \in A) # (samples[q[2]] \in A)
        /\ Score(q) >= threshold}}

\* C10 as stated, on the inputs where every pair across the clusters is an
\* edge: percolation over two dense clusters ends after exactly one round.
C10_OneRoundAsStated ==
    \A A \in SUBSET Range(samples) :
        (Returned /\ TwoDenseClusters(A) /\ \A p \in SamplePairs : Score(p) >= threshold)
            => Len(popped) = 1

\* C10, amended: percolation over two dense clusters ends after one round
\* for each distinct weight of the edges across the clusters, the lowest
\* first: after exactly one round only when all edges across the clusters
\* have one weight.
C10_OneRoundPerCrossWeight ==
    \A A \in SUBSET Range(samples) :
        (Returned /\ TwoDenseClusters(A)) =>
            /\ Len(popped) = Cardinality(CrossWeights(A))
            /\ Range(popped) = CrossWeights(A)
            /\ \A i, j \in DOMAIN popped : i < j => popped[i] < popped[j]

\* C10 happens: two clusters of two samples, the edges across them of two
\* weights, and the call has returned after two rounds.
C10_Witness ==
    /\ Returned
    /\ TwoDenseClusters({0, 1})
    /\ Range(samples) = 0 .. 3
    /\ Cardinality(CrossWeights({0, 1})) = 2
    /\ Len(popped) = 2

\* The pairs of samples inside one of the clusters A and its complement.
WithinEdges(A) ==
    {{samples[p[1]], samples[p[2]]} : p \in {q \in SamplePairs :
        (samples[q[1]] \in A) = (samples[q[2]] \in A)}}

\* C11 as stated: over two dense clusters perform_split returns exactly the
\* two clusters as the two sides, and no edge inside a cluster is removed.
C11_TwoClustersAsStated ==
    \A A \in SUBSET Range(samples) :
        (Returned /\ TwoDenseClusters(A)) =>
            /\ Len(split) = 2
            /\ {Range(split[1]), Range(split[2])} = {A, Range(samples) \ A}
            /\ removed \cap WithinEdges(A) = {}

\* C11, amended: over two dense clusters of which at least one pair of
\* samples scores at or above the threshold, perform_split returns exactly
\* the two clusters as the two sides, without a merge, no edge inside a
\* cluster is removed, and every edge inside a cluster is still in the graph.
\* When no pair scores at or above the threshold (two clusters of one sample
\* each, the pair scoring below 0) it returns (samples, []).
C11_TwoClustersReturned ==
    \A A \in SUBSET Range(samples) :
        (Returned /\ TwoDenseClusters(A)) =>
            IF HadEdges
            THEN /\ Len(split) = 2
                 /\ {Range(split[1]), Range(split[2])} = {A, Range(samples) \ A}
                 /\ Distinct(Flatten(split))
                 /\ removed \cap WithinEdges(A) = {}
                 /\ G.edges = WithinEdges(A)
                 /\ nj_calls = 0
            ELSE /\ Len(samples) = 2
                 /\ split = <<samples, <<>>>>

\* C11 happens: clusters of three samples and one sample, the edges across
\* them removed in two rounds, and the call has returned.
C11_Witness ==
    /\ Returned
    /\ TwoDenseClusters({0, 1, 2})
    /\ Range(samples) = 0 .. 3
    /\ Len(popped) = 2
    /\ Len(split) = 2

EntriesAt(k, c) ==
    {unique_character_matrix[m][c] : m \in connected_components[k + 1]}

\* C13: after the merge branch has computed the ancestral vectors, there is
\* one for each component, and each is decided position by position from
\* the rows of the component's members: the common state if all non-missing
\* entries agree, 0 if two distinct non-missing states occur, the missing
\* marker if every entry is missing.
C13_LcaByPosition ==
    MergePath =>
        /\ DOMAIN lcas = 0 .. Len(connected_components) - 1
        /\ \A k \in DOMAIN lcas :
               /\ DOMAIN lcas[k] = 1 .. NumCharacters
               /\ \A c \in DOMAIN lcas[k] :
                      LET present == EntriesAt(k, c) \ {MissingChar}
                      IN  /\ (\E x \in States : present = {x}) =>
                                 present = {lcas[k][c]}
                          /\ Cardinality(present) >= 2 => lcas[k][c] = 0
                          /\ present = {} => lcas[k][c] = MissingChar

\* C13 happens: the merge computed the ancestral vectors of a component of
\* two samples that carry two distinct states at one position and agree at
\* the other, and of a component whose entries at one position are all
\* missing.
C13_Witness ==
    /\ MergePath
    /\ \E k \in DOMAIN lcas :
           /\ Cardinality(connected_components[k + 1]) = 2
           /\ \E c, d \in 1 .. NumCharacters :
                  /\ Cardinality(EntriesAt(k, c) \ {MissingChar}) = 2
                  /\ EntriesAt(k, d) = {1}
    /\ \E k \in DOMAIN lcas : \E d \in 1 .. NumCharacters :
           EntriesAt(k, d) = {MissingChar}

\* The entries at character c of the rows of all the samples.
Column(c) == {unique_character_matrix[m][c] : m \in Range(samples)}

\* The rows of the samples differ at character c and nowhere else.
DifferOnlyAt(c) ==
    /\ Cardinality(Column(c)) >= 2
    /\ \A d \in (1 .. NumCharacters) \ {c} : Cardinality(Column(d)) = 1

LcaDone == pc = "return" /\ lca_calls = 1 /\ nj_calls = 0 /\ DOMAIN lcas = {0}

\* C14 as stated: of identical vectors the ancestral vector is that vector;
\* of vectors that differ at exactly one position it has 0 at that position
\* and the shared value at every other.
C14_LcaAsStated ==
    LcaDone =>
        /\ (\A c \in 1 .. NumCharacters : Cardinality(Column(c)) = 1) =>
               lcas[0] = unique_character_matrix[0]
        /\ \A c \in 1 .. NumCharacters :
               DifferOnlyAt(c) =>
                   /\ lcas[0][c] = 0
                   /\ \A d \in (1 .. NumCharacters) \ {c} : Column(d) = {lcas[0][d]}

\* C14, amended: of identical vectors the ancestral vector is that vector;
\* of vectors that differ at exactly one position it has the shared value
\* at every other position and, at that position, 0 when two distinct
\* non-missing states occur there and the one non-missing state when the
\* entries there are that state and the missing marker.
C14_LcaIdempotent ==
    LcaDone =>
        /\ (\A c \in 1 .. NumCharacters : Cardinality(Column(c)) = 1) =>
               lcas[0] = unique_character_matrix[0]
        /\ \A c \in 1 .. NumCharacters :
               DifferOnlyAt(c) =>
                   /\ IF Cardinality(Column(c) \ {MissingChar}) >= 2
                      THEN lcas[0][c] = 0
                      ELSE Column(c) = {lcas[0][c], MissingChar}
                   /\ lcas[0][c] # MissingChar
                   /\ \A d \in (1 .. NumCharacters) \ {c} : Column(d) = {lcas[0][d]}

\* C14 happens: the ancestral vector of three vectors that differ at one
\* position only, where a state and the missing marker occur, and share the
\* missing marker at another position.
C14_Witness ==
    /\ LcaDone
    /\ Len(samples) = 3
    /\ \E c \in 1 .. NumCharacters :
           /\ DifferOnlyAt(c)
           /\ Column(c) = {MissingChar, MaxLcaState}
           /\ \E d \in (1 .. NumCharacters) \ {c} : Column(d) = {MissingChar}

\* The entry of sample v at the character of the argument split.
SplitEntry(v) == unique_character_matrix[v][split_arg[1]]

\* C15: what VanillaGreedySolver.perform_split(samples, (character, state))
\* returns is a partition of the samples into a left and a right list; every
\* sample carrying the state at the character is on the left, every sample
\* with another non-missing state on the right, and every sample missing the
\* character on the side the missing-data classifier chooses.
C15_VanillaSplit ==
    (pc = "return" /\ split_arg # <<>>) =>
        /\ split # None
        /\ Len(split) = 2
        /\ Distinct(split[1] \o split[2])
        /\ Range(split[1]) \cup Range(split[2]) = Range(samples)
        /\ \A v \in Range(samples) :
               v \in Range(split[1]) <=>
                   \/ SplitEntry(v) = split_arg[2]
                   \/ /\ SplitEntry(v) = MissingChar
                      /\ missing_data_classifier[v] = "left"

\* The valid range of hamming_similarity, the number of characters at which
\* two samples share a mutated state.
ValidThreshold == threshold \in 0 .. NumCharacters

\* C16: a PercolationSolver whose threshold lies outside the valid range of
\* its similarity function is not constructed: the construction ends in
\* InvalidThresholdError and perform_split never runs on it.
C16_InvalidThresholdRejected ==
    ~ValidThreshold => pc \in {"init", "InvalidThresholdError"}

Resolved == pc = "resolved"

\* The rows of the filtered table with the key of group k.
KeptOf(k) == Group(filt_molecule_table, k)

\* C17: when the filter has been applied, every (cellBC, UMI) group of the
\* molecule table has exactly one row in the filtered table, a row of the
\* group whose readCount is the highest of the group; every other row of the
\* group is marked in mt_filter and is not in the filtered table.
C17_OneReadPerUmi ==
    Resolved =>
        \A k \in {KeyOf(r) : r \in Range(molecule_table)} :
            LET group == Group(molecule_table, k)
            IN  /\ Len(KeptOf(k)) = 1
                /\ KeptOf(k)[1] \in Range(group)
                /\ \A q \in Range(group) :
                       KeptOf(k)[1].readCount >= q.readCount
                /\ mt_filter[KeptOf(k)[1].readName] = FALSE
                /\ \A q \in Range(group) \ {KeptOf(k)[1]} :
                       /\ mt_filter[q.readName] = TRUE
                       /\ q \notin Range(filt_molecule_table)

\* C17 happens: a group of three reads, two of them tied at the highest
\* readCount, and a group of one read have been resolved.
C17_Witness ==
    /\ Resolved
    /\ Len(molecule_table) = 4
    /\ \E k \in {KeyOf(r) : r \in Range(molecule_table)} :
           LET group == Group(molecule_table, k)
           IN  /\ Len(group) = 3
               /\ Cardinality(HighestReadCount(group)) = 2
    /\ Len(filt_molecule_table) = 2

InLoop == pc = "percolate"

\* C18: when the graph has an edge, the loop makes at most as many rounds as
\* there are distinct edge weights and never pops from an empty list: while
\* one component is left a weight is left to pop, every weight is popped at
\* most once, and once no edge is left there are at least two components.
C18_LoopBounded ==
    /\ pc # "IndexError"
    /\ (HadEdges /\ (InLoop \/ Returned)) =>
           /\ Len(popped) <= Cardinality(DOMAIN edge_weights_to_pairs)
           /\ Len(popped) + Len(sorted_edge_weights) =
                  Cardinality(DOMAIN edge_weights_to_pairs)
           /\ Distinct(popped)
           /\ (InLoop /\ Len(connected_components) <= 1) =>
                  /\ sorted_edge_weights # <<>>
                  /\ G.edges # {}
           /\ G.edges = {} => Len(connected_components) >= 2

\* C18 happens: three rounds have removed the edges of three distinct weights,
\* the last of them the last edges of the graph.
C18_Witness ==
    /\ InLoop
    /\ Len(popped) = 3
    /\ Cardinality(DOMAIN edge_weights_to_pairs) = 3
    /\ G.edges = {}
    /\ Len(connected_components) = 4

\* C19: when the graph has an edge and percolation ends with exactly two
\* components, the two lists returned are both non-empty, and each is
\* strictly shorter than the argument.
C19_BothSidesNonEmpty ==
    (Returned /\ HadEdges /\ Len(connected_components) = 2) =>
        /\ Len(split) = 2
        /\ \A i \in 1 .. 2 :
               /\ split[i] # <<>>
               /\ Len(split[i]) < Len(samples)
        /\ Len(split[1]) + Len(split[2]) = Len(samples)

\* C19 happens: a round of percolation left a component of three samples and
\* a component of one, which were returned.
C19_Witness ==
    /\ Returned
    /\ HadEdges
    /\ Len(popped) >= 1
    /\ Len(connected_components) = 2
    /\ {Len(split[1]), Len(split[2])} = {1, 3}

\* The component of the percolated graph that holds sample v.
ComponentOf(v) == Reach({v}, G.edges)

\* C20: in the loop and after it, every edge still in the graph weighs
\* strictly more than every edge removed so far; and when the loop has ended
\* after at least one round, any two samples in different components score
\* at most the last weight removed, or below the threshold.
C20_RemainingAboveRemoved ==
    (HadEdges /\ (InLoop \/ Returned)) =>
        /\ \A e \in G.edges : \A r \in removed : Weight(e) > Weight(r)
        /\ \A e \in G.edges : \A k \in DOMAIN popped : Weight(e) > popped[k]
        /\ (popped # <<>> /\ Len(connected_components) >= 2) =>
               \A p \in SamplePairs :
                   ComponentOf(samples[p[1]]) # ComponentOf(samples[p[2]]) =>
                       \/ Score(p) <= popped[Len(popped)]
                       \/ Score(p) < threshold

\* C20 happens: the loop has ended after two rounds with edges left in the
\* graph, and a pair of samples in different components scores below the
\* threshold.
C20_Witness ==
    /\ Returned
    /\ Len(popped) = 2
    /\ G.edges # {}
    /\ \E p \in SamplePairs :
           /\ ComponentOf(samples[p[1]]) # ComponentOf(samples[p[2]])
           /\ Score(p) < threshold

\* The graph as the construction loop leaves it has an edge and two or more
\* components.
BuiltDisconnected ==
    /\ BuildGraph(samples).edges # {}
    /\ Cardinality(ComponentSets(BuildGraph(samples))) >= 2

\* C21: when the graph that is built has an edge and already two or more
\* components, no round of percolation is made and no edge is removed: the
\* graph stays as built, the components are those of the built graph, every
\* sample without an edge is a component of its own, and every component
\* lies whole inside one of the lists returned.
C21_NoRemovalWhenDisconnected ==
    (BuiltDisconnected /\ (InLoop \/ Returned)) =>
        /\ G = BuildGraph(samples)
        /\ popped = <<>>
        /\ removed = {}
        /\ sorted_edge_weights = SortedEdgeWeights(edge_weights_to_pairs)
        /\ Len(connected_components) = Cardinality(Range(connected_components))
        /\ Range(connected_components) = ComponentSets(BuildGraph(samples))
        /\ \A v \in Range(samples) :
               v \notin UNION BuildGraph(samples).edges =>
                   {v} \in Range(connected_components)
        /\ Returned =>
               /\ Len(split) = 2
               /\ \A comp \in Range(connected_components) :
                      \E i \in 1 .. 2 : comp \subseteq Range(split[i])

\* C21 happens: the graph was built with an edge, a sample without any edge
\* and three components, and the call returned through the merge.
C21_Witness ==
    /\ Returned
    /\ BuiltDisconnected
    /\ Len(connected_components) = 3
    /\ \E v \in Range(samples) : v \notin UNION G.edges
    /\ nj_calls = 1

=============================================================================
